---- MODULE Spec2Model ----
(***************************************************************************)
(* A model of invoice_extractor.py: the vendor detector, the two           *)
(* per-vendor parsers (pattern fields, bounded-window address scans,       *)
(* line-item tables, total), the DataFrame assembly with its numeric       *)
(* coercion, and the per-file loop of process_folder.                      *)
(*                                                                         *)
(* Strings are sequences of tokens.  A token is one whitespace character   *)
(* (" ", "\t", "\n"), one punctuation character, one digit, or one word    *)
(* (a run of letters that the program never looks inside).  Substring and  *)
(* regular-expression searches are searches for token subsequences.        *)
(***************************************************************************)
EXTENDS Integers, Sequences, FiniteSets, TLC

VARIABLES
    files,      \* process_folder: pdf_files with their extracted text/tables
    fidx,       \* process_folder: position of the loop over pdf_files
    pc,         \* control position
    inv_type,   \* extract_invoice_to_dataframe: inv_type
    data,       \* parse_*_invoice: the dict under construction
    li,         \* parse_*_invoice: index of the line the scan is at (1-based)
    scanned,    \* history: the window scans run by the last scan step
    tbl,        \* parse_*_invoice: index of the table the loop is at
    items,      \* parse_*_invoice: items
    kept,       \* history: (table, row) of each element of items
    df,         \* extract_invoice_to_dataframe: df
    exc,        \* the exception in flight, "none" when there is none
    all_dfs,    \* process_folder: all_dfs
    errors      \* process_folder: the files reported by "Error processing"

vars == <<files, fidx, pc, inv_type, data, li, scanned, tbl, items, kept, df,
          exc, all_dfs, errors>>

----------------------------------------------------------------------------
(* Strings                                                                 *)

\* Op applied to the value of e, which is computed once
With(e, Op(_)) == CHOOSE r \in {Op(x) : x \in {e}} : TRUE

Min(S) == With(S, LAMBDA T : CHOOSE m \in T : \A n \in T : m <= n)
Max(S) == With(S, LAMBDA T : CHOOSE m \in T : \A n \in T : m >= n)

\* \s of the re module, on tokens
IsSpace(t) == t \in {" ", "\t", "\n"}

Digits == {"0", "1", "2", "3", "4", "5", "6", "7", "8", "9"}

\* str.lower() on the tokens of the model's alphabet
LowerTok(t) ==
    CASE t = "Sold" -> "sold"
      [] t = "SOLD" -> "sold"
      [] t = "By" -> "by"
      [] t = "BY" -> "by"
      [] t = "Billing" -> "billing"
      [] t = "BILLING" -> "billing"
      [] t = "Shipping" -> "shipping"
      [] t = "SHIPPING" -> "shipping"
      [] t = "Address" -> "address"
      [] t = "ADDRESS" -> "address"
      [] t = "Amazon" -> "amazon"
      [] t = "AMAZON" -> "amazon"
      [] t = "IN" -> "in"
      [] t = "Flipkart" -> "flipkart"
      [] t = "FLIPKART" -> "flipkart"
      [] t = "Invoice" -> "invoice"
      [] t = "INVOICE" -> "invoice"
      [] t = "Order" -> "order"
      [] t = "Issue" -> "issue"
      [] t = "Number" -> "number"
      [] t = "Date" -> "date"
      [] t = "DATE" -> "date"
      [] t = "ID" -> "id"
      [] t = "Total" -> "total"
      [] t = "TOTAL" -> "total"
      [] t = "Amount" -> "amount"
      [] t = "Net" -> "net"
      [] t = "Unit" -> "unit"
      [] t = "Price" -> "price"
      [] t = "Description" -> "description"
      [] t = "DESCRIPTION" -> "description"
      [] t = "Item" -> "item"
      [] t = "Qty" -> "qty"
      [] t = "QTY" -> "qty"
      [] t = "Sl" -> "sl"
      [] t = "No" -> "no"
      [] t = "Rs" -> "rs"
      [] t = "RS" -> "rs"
      [] t = "OD" -> "od"
      [] t = "Acme" -> "acme"
      [] t = "Flat" -> "flat"
      [] t = "Road" -> "road"
      [] t = "Widget" -> "widget"
      [] t = "Gadget" -> "gadget"
      [] OTHER -> t

LowerOf(s) == [k \in 1..Len(s) |-> LowerTok(s[k])]
Lower(s) == With(s, LowerOf)

\* pat occurs in s at position k (case-sensitive)
MatchAt(s, pat, k) ==
    \E x \in {s} :
        /\ k >= 1
        /\ k + Len(pat) - 1 <= Len(x)
        /\ \A n \in 1..Len(pat) : x[k + n - 1] = pat[n]

\* the positions at which pat occurs in s
OccurrencesOf(s, pat) == {k \in 1..(Len(s) - Len(pat) + 1) : MatchAt(s, pat, k)}
Occurrences(s, pat) == With(s, LAMBDA x : With(pat, LAMBDA y : OccurrencesOf(x, y)))

\* Python's `pat in s`
Contains(s, pat) == Occurrences(s, pat) # {}

\* re.search(pat, s, re.IGNORECASE) for a literal pat
SearchIC(s, pat) == Contains(Lower(s), Lower(pat))

\* str.strip()
StripOf(s, solid) == IF solid = {} THEN <<>> ELSE SubSeq(s, Min(solid), Max(solid))
Strip(s) == With(s, LAMBDA x : With({k \in 1..Len(x) : ~IsSpace(x[k])}, LAMBDA solid : StripOf(x, solid)))

\* re.sub(r"\s+", " ", s): every run of whitespace becomes one space
CollapseSpaceOf(s) ==
    LET F[k \in 0..Len(s)] ==
            IF k = 0 THEN <<>>
            ELSE IF IsSpace(s[k])
                 THEN IF k > 1 /\ IsSpace(s[k - 1]) THEN F[k - 1]
                      ELSE Append(F[k - 1], " ")
                 ELSE Append(F[k - 1], s[k])
    IN  F[Len(s)]
CollapseSpace(s) == With(s, CollapseSpaceOf)

normalize_whitespace(s) == Strip(CollapseSpace(s))

\* " ".join(parts)
JoinSpace(parts) ==
    LET F[k \in 0..Len(parts)] ==
            IF k = 0 THEN <<>>
            ELSE IF k = 1 THEN parts[1]
            ELSE F[k - 1] \o <<" ">> \o parts[k]
    IN  F[Len(parts)]

\* "\n".join(lines): the text the line list was split from
JoinLines(lines) ==
    LET F[k \in 0..Len(lines)] ==
            IF k = 0 THEN <<>>
            ELSE IF k = 1 THEN lines[1]
            ELSE F[k - 1] \o <<"\n">> \o lines[k]
    IN  F[Len(lines)]

\* a dict with key k set to v
SetField(d, k, v) == [x \in (DOMAIN d) \cup {k} |-> IF x = k THEN v ELSE d[x]]

\* dict.setdefault(k, v)
SetDefault(d, k, v) == IF k \in DOMAIN d THEN d ELSE SetField(d, k, v)

EmptyDict == [x \in {} |-> <<>>]

----------------------------------------------------------------------------
(* The literals of the program                                             *)

SoldBy == <<"Sold", " ", "By">>
BillingAddress == <<"Billing", " ", "Address">>
ShippingAddress == <<"Shipping", " ", "Address">>
OrderNumber == <<"Order", " ", "Number">>
OrderID == <<"Order", " ", "ID">>
OrderDate == <<"Order", " ", "Date">>
InvoiceNumber == <<"Invoice", " ", "Number">>
InvoiceDate == <<"Invoice", " ", "Date">>
IssueDate == <<"Issue", " ", "Date">>
AmazonIn == <<"Amazon", ".", "in">>
Flipkart == <<"Flipkart">>

----------------------------------------------------------------------------
(* detect_invoice_type                                                     *)

detect_invoice_type_noorder(text) ==
    IF SearchIC(text, Flipkart) THEN "flipkart"
    ELSE IF \/ SearchIC(text, AmazonIn)
            \/ SearchIC(text, SoldBy)
            \/ SearchIC(text, InvoiceDate) THEN "amazon"
    ELSE "unknown"

detect_invoice_type(text) ==
    IF \/ SearchIC(text, AmazonIn)
       \/ SearchIC(text, SoldBy)
       \/ SearchIC(text, InvoiceDate) THEN "amazon"
    ELSE IF SearchIC(text, Flipkart) THEN "flipkart"
    ELSE "unknown"

----------------------------------------------------------------------------
(* The header-field patterns of parse_amazon_invoice and                   *)
(* parse_flipkart_invoice.  A search returns the captured group, or <<>>   *)
(* when the pattern matches nowhere (a group is never empty).              *)

Punct == {":", ".", ",", "/", "-", "₹"}

IsWord(t) == ~IsSpace(t) /\ t \notin Punct /\ t \notin Digits

\* [A-Za-z0-9-]
IdTok(t) == IsWord(t) \/ t \in Digits \/ t = "-"

\* [:\s]
SepTok(t) == t = ":" \/ IsSpace(t)

\* [₹Rs\.] under re.IGNORECASE
CurrencyTok(t) == LowerTok(t) \in {"₹", "rs", "."}

IsDigit(t) == t \in Digits
IsAmountTok(t) == t \in Digits \/ t = ","

\* the character classes of the patterns
InClass(class, t) ==
    CASE class = "sep" -> SepTok(t)
      [] class = "id" -> IdTok(t)
      [] class = "currency" -> CurrencyTok(t)
      [] class = "space" -> IsSpace(t)
      [] class = "digit" -> IsDigit(t)
      [] class = "amount" -> IsAmountTok(t)

\* the last position of the run of tokens of a class that starts at p
\* (p - 1 when the run is empty)
RunEnd(s, p, class) ==
    With(s, LAMBDA x : Min({q \in p..(Len(x) + 1) :
                               q = Len(x) + 1 \/ ~InClass(class, x[q])}) - 1)

\* where the group starts after the label found at k: Label[:\s]*
GroupStart(text, label, k) == RunEnd(text, k + Len(label), "sep") + 1

\* the group ([A-Za-z0-9-]+) that starts at p
IdFrom(text, p) == With(p, LAMBDA q : SubSeq(text, q, RunEnd(text, q, "id")))

\* Label[:\s]*([A-Za-z0-9-]+), re.IGNORECASE, leftmost match
SearchId(text, label) ==
    With({k \in Occurrences(Lower(text), Lower(label)) :
             \E p \in {GroupStart(text, label, k)} : p <= Len(text) /\ IdTok(text[p])},
         LAMBDA hits : IF hits = {} THEN <<>>
                       ELSE IdFrom(text, GroupStart(text, label, Min(hits))))

\* the length of [0-3]?\d[\.\-/][0-1]?\d[\.\-/][0-9]{4} matched at p, 0 if none
DateLenOf(s, p) ==
    LET D(q) == q <= Len(s) /\ s[q] \in Digits
        In(q, set) == q <= Len(s) /\ s[q] \in set
        DateSep(q) == In(q, {".", "-", "/"})
        Day(a) == IF a = 2 THEN In(p, {"0", "1", "2", "3"}) /\ D(p + 1) ELSE D(p)
        Month(a, b) == IF b = 2 THEN In(p + a + 1, {"0", "1"}) /\ D(p + a + 2)
                       ELSE D(p + a + 1)
        ok(a, b) == /\ Day(a)
                    /\ DateSep(p + a)
                    /\ Month(a, b)
                    /\ DateSep(p + a + b + 1)
                    /\ \A n \in 2..5 : D(p + a + b + n)
    IN  With({a + b + 6 : <<a, b>> \in {ab \in {1, 2} \X {1, 2} : ok(ab[1], ab[2])}},
             LAMBDA lens : IF lens = {} THEN 0 ELSE Max(lens))
DateLenAt(s, p) == With(s, LAMBDA x : With(p, LAMBDA q : DateLenOf(x, q)))

\* the date group that starts at p
DateFrom(text, p) == With(p, LAMBDA q : SubSeq(text, q, q + DateLenAt(text, q) - 1))

\* Label[:\s]*(date), re.IGNORECASE, leftmost match
SearchDate(text, label) ==
    With({k \in Occurrences(Lower(text), Lower(label)) :
             DateLenAt(text, GroupStart(text, label, k)) > 0},
         LAMBDA hits : IF hits = {} THEN <<>>
                       ELSE DateFrom(text, GroupStart(text, label, Min(hits))))

\* the end of ([0-9,]+\.?[0-9]*) matched at p, p - 1 if none
AmountEndOf(s, p, e1) ==
    IF e1 < p THEN p - 1
    ELSE RunEnd(s, (IF e1 + 1 <= Len(s) /\ s[e1 + 1] = "." THEN e1 + 1 ELSE e1) + 1, "digit")
AmountEnd(s, p) ==
    With(s, LAMBDA x : With(p, LAMBDA q :
        With(RunEnd(x, q, "amount"), LAMBDA e1 : AmountEndOf(x, q, e1))))

\* where the amount starts after a label that ends before position p:
\* [:\s]*[₹Rs\.]*\s*
AmountStart(s, p) ==
    RunEnd(s, RunEnd(s, RunEnd(s, p, "sep") + 1, "currency") + 1, "space") + 1

\* the group ([0-9,]+\.?[0-9]*) starts at p
HasAmount(text, p) == \E q \in {p} : AmountEnd(text, q) >= q

\* the group ([0-9,]+\.?[0-9]*) that starts at p
AmountFrom(text, p) == With(p, LAMBDA q : SubSeq(text, q, AmountEnd(text, q)))

\* where the label Total\s*Amount found at k ends, 0 when Amount does not follow
TotalAmountEnd(text, k) ==
    With(RunEnd(text, k + 1, "space") + 1,
         LAMBDA amt : IF MatchAt(Lower(text), <<"amount">>, amt)
                      THEN RunEnd(text, amt + 1, "space") ELSE 0)

\* where the amount starts after Total\s*Amount\s* found at k
AmazonAmountStart(text, k) == AmountStart(text, TotalAmountEnd(text, k) + 1)

\* Total\s*Amount\s*[:\s]*[₹Rs\.]*\s*([0-9,]+\.?[0-9]*), re.IGNORECASE
SearchTotalAmazon(text) ==
    With({k \in Occurrences(Lower(text), <<"total">>) :
             TotalAmountEnd(text, k) > 0 /\ HasAmount(text, AmazonAmountStart(text, k))},
         LAMBDA hits : IF hits = {} THEN <<>>
                       ELSE AmountFrom(text, AmazonAmountStart(text, Min(hits))))

\* Total[:\s]*[₹Rs\.]*\s*([0-9,]+\.?[0-9]*), re.IGNORECASE
SearchTotalFlipkart(text) ==
    With({k \in Occurrences(Lower(text), <<"total">>) :
             HasAmount(text, AmountStart(text, k + 1))},
         LAMBDA hits : IF hits = {} THEN <<>>
                       ELSE AmountFrom(text, AmountStart(text, Min(hits) + 1)))

\* for field, pat in patterns.items(): data[field] = normalize_whitespace(m.group(1))
PatternFields(found) ==
    LET present == {f \in DOMAIN found : found[f] # <<>>}
    IN  [f \in present |-> normalize_whitespace(found[f])]

AmazonPatterns(text) ==
    PatternFields([f \in {"order_number", "invoice_number", "order_date", "invoice_date"} |->
        CASE f = "order_number" -> SearchId(text, OrderNumber)
          [] f = "invoice_number" -> SearchId(text, InvoiceNumber)
          [] f = "order_date" -> SearchDate(text, OrderDate)
          [] f = "invoice_date" -> SearchDate(text, InvoiceDate)])

FlipkartPatterns(text) ==
    PatternFields([f \in {"order_id", "invoice_number", "invoice_date", "issue_date"} |->
        CASE f = "order_id" -> SearchId(text, OrderID)
          [] f = "invoice_number" -> SearchId(text, InvoiceNumber)
          [] f = "invoice_date" -> SearchDate(text, InvoiceDate)
          [] f = "issue_date" -> SearchDate(text, IssueDate)])

----------------------------------------------------------------------------
(* The bounded-window scans of the address blocks                          *)

SellerRange == 6     \* range(i+1, min(i+6, len(lines)))
AddressRange == 8    \* range(i+1, min(i+8, len(lines)))

IsBlank(line) == Strip(line) = <<>>

\* the stop tests of the window loops, one per loop
StopCombined(line) == IsBlank(line) \/ Contains(line, ShippingAddress)
StopAmazonSeller(line) == IsBlank(line) \/ SearchIC(line, BillingAddress)
StopBilling(line) == IsBlank(line) \/ SearchIC(line, ShippingAddress)
StopAmazonShipping(line) ==
    IsBlank(line) \/ SearchIC(line, OrderNumber) \/ SearchIC(line, InvoiceDate)
StopFlipkartShipping(line) ==
    IsBlank(line) \/ SearchIC(line, OrderID) \/ SearchIC(line, InvoiceDate)
StopFlipkartSeller(line) == IsBlank(line)

\* the stop test of the window loop `stop`
Stop(stop, line) ==
    CASE stop = "combined" -> StopCombined(line)
      [] stop = "amazon_seller" -> StopAmazonSeller(line)
      [] stop = "billing" -> StopBilling(line)
      [] stop = "amazon_shipping" -> StopAmazonShipping(line)
      [] stop = "flipkart_shipping" -> StopFlipkartShipping(line)
      [] stop = "flipkart_seller" -> StopFlipkartSeller(line)

\* A mutant of BlockIdx: the loop does not break, it skips the stop lines.
BlockIdxNoBreak(lines, t, range, stop) ==
    {j \in (t + 1)..Min({t + range - 1, Len(lines)}) : ~Stop(stop, lines[j])}

\* for j in range(i+1, min(i+range, len(lines))): if <stop>: break; append.
\* The indices of the lines appended, for the trigger line at index t.
\* (The model counts lines from 1: t = i + 1.)
BlockIdx(lines, t, range, stop) ==
    With(Min({t + range - 1, Len(lines)}), LAMBDA hi :
        With({j \in (t + 1)..hi : Stop(stop, lines[j])}, LAMBDA stops :
            (t + 1)..(IF stops = {} THEN hi ELSE Min(stops) - 1)))

\* the stripped lines of a block, in order
BlockLines(lines, t, idx) ==
    [k \in 1..Cardinality(idx) |-> Strip(lines[t + k])]

\* re.split(r"Label\s*:\s*", s, flags=re.IGNORECASE)
RECURSIVE RegexSplit(_, _)
RegexSplit(s, label) ==
    LET low == Lower(s)
        colon(k) == RunEnd(s, k + Len(label), "space") + 1
        hits == {k \in Occurrences(low, Lower(label)) :
                    colon(k) <= Len(s) /\ s[colon(k)] = ":"}
    IN  IF hits = {} THEN <<s>>
        ELSE LET k == Min(hits)
                 e == RunEnd(s, colon(k) + 1, "space")
             IN  <<SubSeq(s, 1, k - 1)>> \o RegexSplit(SubSeq(s, e + 1, Len(s)), label)

\* one window scan, as the history records it
Scan(path, field, t, idx) == [path |-> path, field |-> field, trigger |-> t, idx |-> idx]

\* the result of a part of the loop body that ran no window scan
NoScan(d) == [data |-> d, scans |-> {}]

\* normalize_whitespace(" ".join(block))
BlockValue(lines, t, idx) == normalize_whitespace(JoinSpace(BlockLines(lines, t, idx)))

\* `if block: data[field] = ...` after the window loop that gave idx
Assign(d, path, field, lines, t, idx) ==
    [data |-> IF idx # {} THEN SetField(d, field, BlockValue(lines, t, idx)) ELSE d,
     scans |-> {Scan(path, field, t, idx)}]

\* `if seller: data.setdefault("seller_details", ...)`, line 78
AssignDefault(d, path, field, lines, t, idx) ==
    [data |-> IF idx # {} THEN SetDefault(d, field, BlockValue(lines, t, idx)) ELSE d,
     scans |-> {Scan(path, field, t, idx)}]

\* lines 64-70: the billing part of the combined line and the lines after it
CombinedBilling(d, lines, t, billing_part, idx) ==
    [data |-> SetField(d, "billing_address",
                  normalize_whitespace(
                      JoinSpace(<<Strip(billing_part)>> \o BlockLines(lines, t, idx)))),
     scans |-> {Scan("combined", "billing_address", t, idx)}]

\* lines 60-63, with d the dict after the seller part is set
CombinedParts(d, lines, t, subparts) ==
    IF Len(subparts) > 1
    THEN CombinedBilling(SetField(d, "seller_details",
                                  normalize_whitespace(Strip(subparts[1]))),
                         lines, t, subparts[2],
                         BlockIdx(lines, t, SellerRange, "combined"))
    ELSE NoScan(SetField(d, "seller_details", normalize_whitespace(Strip(subparts[1]))))

\* lines 57-59
Combined(d, lines, t, parts) ==
    IF Len(parts) > 1
    THEN CombinedParts(d, lines, t, RegexSplit(parts[2], BillingAddress))
    ELSE NoScan(d)

\* parse_amazon_invoice, lines 56-78: the combined line, or the "Sold By" scan
AmazonSeller(d, lines, t) ==
    IF Contains(lines[t], SoldBy) /\ Contains(lines[t], BillingAddress)
    THEN Combined(d, lines, t, RegexSplit(lines[t], SoldBy))
    ELSE IF Contains(lines[t], SoldBy)
    THEN AssignDefault(d, "sold_by", "seller_details", lines, t,
                       BlockIdx(lines, t, SellerRange, "amazon_seller"))
    ELSE NoScan(d)

\* A mutant of AmazonBilling: the scan runs whether or not the seller is known.
AmazonBillingUnguarded(d, lines, t) ==
    IF SearchIC(lines[t], BillingAddress)
    THEN Assign(d, "billing", "billing_address", lines, t,
                BlockIdx(lines, t, AddressRange, "billing"))
    ELSE NoScan(d)

\* parse_amazon_invoice, lines 79-85: the independent "Billing Address" scan
AmazonBilling(d, lines, t) ==
    IF SearchIC(lines[t], BillingAddress) /\ "seller_details" \notin DOMAIN d
    THEN Assign(d, "billing", "billing_address", lines, t,
                BlockIdx(lines, t, AddressRange, "billing"))
    ELSE NoScan(d)

\* parse_amazon_invoice, lines 86-92
AmazonShipping(d, lines, t) ==
    IF SearchIC(lines[t], ShippingAddress)
    THEN Assign(d, "shipping", "shipping_address", lines, t,
                BlockIdx(lines, t, AddressRange, "amazon_shipping"))
    ELSE NoScan(d)

\* parse_flipkart_invoice, lines 146-152
FlipkartBilling(d, lines, t) ==
    IF SearchIC(lines[t], BillingAddress)
    THEN Assign(d, "billing", "billing_address", lines, t,
                BlockIdx(lines, t, AddressRange, "billing"))
    ELSE NoScan(d)

\* parse_flipkart_invoice, lines 153-159
FlipkartShipping(d, lines, t) ==
    IF SearchIC(lines[t], ShippingAddress)
    THEN Assign(d, "shipping", "shipping_address", lines, t,
                BlockIdx(lines, t, AddressRange, "flipkart_shipping"))
    ELSE NoScan(d)

\* parse_flipkart_invoice, lines 160-166
FlipkartSeller(d, lines, t) ==
    IF SearchIC(lines[t], SoldBy)
    THEN Assign(d, "sold_by", "seller_details", lines, t,
                BlockIdx(lines, t, SellerRange, "flipkart_seller"))
    ELSE NoScan(d)

\* a part of the loop body after the parts before it
Then(before, part) == [data |-> part.data, scans |-> before.scans \cup part.scans]

AmazonThenBilling(s1, lines, t) == Then(s1, AmazonBilling(s1.data, lines, t))
AmazonThenShipping(s2, lines, t) == Then(s2, AmazonShipping(s2.data, lines, t))
FlipkartThenShipping(s1, lines, t) == Then(s1, FlipkartShipping(s1.data, lines, t))
FlipkartThenSeller(s2, lines, t) == Then(s2, FlipkartSeller(s2.data, lines, t))

\* the body of `for i, line in enumerate(lines)` in parse_amazon_invoice
AmazonLine(d, lines, t) ==
    AmazonThenShipping(AmazonThenBilling(AmazonSeller(d, lines, t), lines, t), lines, t)

\* the body of `for i, line in enumerate(lines)` in parse_flipkart_invoice
FlipkartLine(d, lines, t) ==
    FlipkartThenSeller(FlipkartThenShipping(FlipkartBilling(d, lines, t), lines, t), lines, t)

----------------------------------------------------------------------------
(* The line-item tables.  A table is a sequence of rows, a row a sequence  *)
(* of cells, a cell a string or None.                                      *)

NoneCell == <<"<None>">>

\* Python's truth value of an optional string
Truthy(cell) == cell # NoneCell /\ cell # <<>>

\* header = [cell.lower() if cell else "" for cell in table[0]]
Header(table) ==
    [k \in 1..Len(table[1]) |-> IF Truthy(table[1][k]) THEN Lower(table[1][k]) ELSE <<>>]

\* the description test of each parser
IsDescription(vendor, col) ==
    \/ Contains(col, <<"description">>)
    \/ vendor = "flipkart" /\ Contains(col, <<"item">>)

IsQty(col) == Contains(col, <<"qty">>)

IsUnitPrice(col) ==
    \/ Contains(col, <<"unit", " ", "price">>)
    \/ Contains(col, <<"price">>) /\ Contains(col, <<"unit">>)

IsAmount(col) ==
    \/ Contains(col, <<"net", " ", "amount">>)
    \/ Contains(col, <<"total", " ", "amount">>)
    \/ Contains(col, <<"amount">>)

\* lines 99 and 171: the table is an item table
IsItemTable(vendor, header) ==
    /\ \E k \in 1..Len(header) : IsDescription(vendor, header[k])
    /\ \E k \in 1..Len(header) : IsQty(header[k])

\* the if/elif chain of lines 102-109 and 174-181 on one header cell
RoleOf(vendor, col) ==
    IF IsDescription(vendor, col) THEN "description"
    ELSE IF IsQty(col) THEN "quantity"
    ELSE IF IsUnitPrice(col) THEN "unit_price"
    ELSE IF IsAmount(col) THEN "total_price"
    ELSE "none"

Roles == {"description", "quantity", "unit_price", "total_price"}

\* the role of every header cell
RolesOf(vendor, header) == [k \in 1..Len(header) |-> RoleOf(vendor, header[k])]

\* A mutant of IdxMapOf: the first cell of a role keeps it.
IdxMapFirst(roles) ==
    [r \in {roles[k] : k \in 1..Len(roles)} \ {"none"} |->
        Min({k \in 1..Len(roles) : roles[k] = r})]

\* idx_map after `for idx, col in enumerate(header)`, from the role of every
\* cell: a later cell of a role overwrites an earlier one
IdxMapOf(roles) ==
    [r \in {roles[k] : k \in 1..Len(roles)} \ {"none"} |->
        Max({k \in 1..Len(roles) : roles[k] = r})]

IdxMap(vendor, header) == IdxMapOf(RolesOf(vendor, header))

\* `if not any(cell for cell in row): continue`
RowSkipped(row) == ~\E k \in 1..Len(row) : Truthy(row[k])

\* row[idx_map[...]] raises IndexError
RowRaises(idx_map, row) == \E r \in DOMAIN idx_map : idx_map[r] > Len(row)

\* item, lines 112-120 and 184-192
ItemOf(idx_map, row) ==
    [r \in DOMAIN idx_map |->
        normalize_whitespace(IF Truthy(row[idx_map[r]]) THEN row[idx_map[r]] ELSE <<>>)]

\* `if item:`
ItemKept(item) == DOMAIN item # {}

\* the row appends an item: it is not skipped, and `if item:` holds
RowKept(idx_map, row) == ~RowSkipped(row) /\ ItemKept(ItemOf(idx_map, row))

\* the first row of table[1:] that raises, Len(table) + 1 if none does
FirstRaise(idx_map, table) ==
    Min({r \in 2..(Len(table) + 1) :
            r = Len(table) + 1
            \/ (~RowSkipped(table[r]) /\ RowRaises(idx_map, table[r]))})

\* the rows before `stop` that append an item, in order
RowsKept(idx_map, table, stop) ==
    LET F[r \in 1..Len(table)] ==
            IF r = 1 THEN <<>>
            ELSE IF r < stop /\ RowKept(idx_map, table[r])
                 THEN Append(F[r - 1], r) ELSE F[r - 1]
    IN  F[Len(table)]

\* the rows of an item table whose items are appended, and whether a row raised
ItemRows(idx_map, table, stop) ==
    [rows |-> RowsKept(idx_map, table, stop), raised |-> stop <= Len(table)]

\* lines 96-99 and 169-171: the table is looked at
IsParsed(vendor, table) ==
    Len(table) > 0 /\ Len(table[1]) > 0 /\ IsItemTable(vendor, Header(table))

\* the body of `for table in tables` for one table
TableItems(vendor, table, idx_map) ==
    IF IsParsed(vendor, table)
    THEN With(FirstRaise(idx_map, table), LAMBDA stop : ItemRows(idx_map, table, stop))
    ELSE [rows |-> <<>>, raised |-> FALSE]

----------------------------------------------------------------------------
(* The DataFrame of extract_invoice_to_dataframe.  A frame is a set of     *)
(* column names and a sequence of rows; a cell of a frame is a string, a   *)
(* number or NaN.  A number is its sign, its integer part and the digits   *)
(* of its fraction without trailing zeros, so that "2", "2.0" and "02"     *)
(* are the same number.                                                    *)

StrVal(s) == [t |-> "str", s |-> s, neg |-> FALSE, n |-> 0]
NaN == [t |-> "nan", s |-> <<>>, neg |-> FALSE, n |-> 0]
NumVal(neg, n, frac) ==
    [t |-> "num", s |-> frac, neg |-> neg /\ (n # 0 \/ frac # <<>>), n |-> n]

DigitVal(t) ==
    CASE t = "0" -> 0 [] t = "1" -> 1 [] t = "2" -> 2 [] t = "3" -> 3 [] t = "4" -> 4
      [] t = "5" -> 5 [] t = "6" -> 6 [] t = "7" -> 7 [] t = "8" -> 8 [] t = "9" -> 9

\* the value of a sequence of digits
IntOf(ds) ==
    LET F[k \in 0..Len(ds)] == IF k = 0 THEN 0 ELSE 10 * F[k - 1] + DigitVal(ds[k])
    IN  F[Len(ds)]

\* a sequence of digits without its trailing zeros
TrimZeros(ds) ==
    LET nz == {k \in 1..Len(ds) : ds[k] # "0"}
    IN  IF nz = {} THEN <<>> ELSE SubSeq(ds, 1, Max(nz))

\* the columns the coercion loop touches
NumericColumns == {"unit_price", "quantity", "total_price", "total_amount"}

\* Series.astype(str) on one cell
AsStr(v) == IF v.t = "nan" THEN <<"nan">> ELSE v.s

\* .replace(r"[₹,]", "", regex=True) on one cell
StripCurrency(s) == SelectSeq(s, LAMBDA t : t \notin {"₹", ","})

\* what pd.to_numeric makes of one string: a number, NaN (the empty string and
\* "nan"), or a failure
ParseNumeric(str) ==
    With(Strip(str), LAMBDA s :
    With(IF Len(s) > 0 /\ s[1] \in {"-", "+"} THEN 2 ELSE 1, LAMBDA b :
    With(RunEnd(s, b, "digit"), LAMBDA e1 :
    With(e1 + 1 <= Len(s) /\ s[e1 + 1] = ".", LAMBDA dot :
    With(IF dot THEN RunEnd(s, e1 + 2, "digit") ELSE e1, LAMBDA e2 :
        IF s = <<>> \/ Lower(s) = <<"nan">> THEN [ok |-> TRUE, v |-> NaN]
        ELSE IF e2 = Len(s) /\ (e1 >= b \/ (dot /\ e2 >= e1 + 2))
        THEN [ok |-> TRUE,
              v |-> NumVal(b = 2 /\ s[1] = "-", IntOf(SubSeq(s, b, e1)),
                           IF dot THEN TrimZeros(SubSeq(s, e1 + 2, e2)) ELSE <<>>)]
        ELSE [ok |-> FALSE, v |-> StrVal(str)])))))

\* df[col] = df[col].astype(str).replace(...); pd.to_numeric(df[col], errors="ignore"):
\* the column is converted as a whole, or left as the stripped strings
CoerceColumn(cells) ==
    LET strs == [k \in 1..Len(cells) |-> StripCurrency(AsStr(cells[k]))]
    IN  IF \A k \in 1..Len(cells) : ParseNumeric(strs[k]).ok
        THEN [k \in 1..Len(cells) |-> ParseNumeric(strs[k]).v]
        ELSE [k \in 1..Len(cells) |-> StrVal(strs[k])]

\* lines 231-234
Coerce(frame) ==
    LET col(c) == CoerceColumn([k \in 1..Len(frame.rows) |-> frame.rows[k][c]])
    IN  [cols |-> frame.cols,
         rows |-> [k \in 1..Len(frame.rows) |->
                     [c \in frame.cols |->
                         IF c \in NumericColumns THEN col(c)[k] ELSE frame.rows[k][c]]]]

\* A mutant of BuildFrame: a document without items gives a frame without rows.
BuildFrameNoRow(its, metadata) ==
    LET cols == UNION {DOMAIN its[k] : k \in 1..Len(its)}
    IN  [cols |-> cols \cup DOMAIN metadata,
         rows |-> [k \in 1..Len(its) |->
                     [c \in cols \cup DOMAIN metadata |->
                         IF c \in DOMAIN metadata THEN StrVal(metadata[c])
                         ELSE IF c \in DOMAIN its[k] THEN StrVal(its[k][c])
                         ELSE NaN]]]

\* lines 223-230: pd.DataFrame(items) with the metadata set on every row, or
\* pd.DataFrame([metadata])
BuildFrame(its, metadata) ==
    IF its # <<>>
    THEN LET cols == UNION {DOMAIN its[k] : k \in 1..Len(its)}
         IN  [cols |-> cols \cup DOMAIN metadata,
              rows |-> [k \in 1..Len(its) |->
                          [c \in cols \cup DOMAIN metadata |->
                              IF c \in DOMAIN metadata THEN StrVal(metadata[c])
                              ELSE IF c \in DOMAIN its[k] THEN StrVal(its[k][c])
                              ELSE NaN]]]
    ELSE [cols |-> DOMAIN metadata,
          rows |-> <<[c \in DOMAIN metadata |-> StrVal(metadata[c])]>>]

\* df['source_file'] = fname
WithSource(frame, fname) ==
    [cols |-> frame.cols \cup {"source_file"},
     rows |-> [k \in 1..Len(frame.rows) |->
                 [c \in frame.cols \cup {"source_file"} |->
                     IF c = "source_file" THEN StrVal(<<fname>>) ELSE frame.rows[k][c]]]]

NoFrame == [cols |-> {}, rows |-> <<>>]

----------------------------------------------------------------------------
(* The state machine                                                       *)

Cur == files[fidx]
Lines == Cur.lines
Tables == Cur.tables
Text == JoinLines(Lines)

\* os.listdir gives distinct names
FileName(k) == ToString(k)

\* pd.concat(all_dfs, ignore_index=True)
Concat(dfs) ==
    LET cols == UNION {dfs[k].cols : k \in 1..Len(dfs)}
        fill(row) == [c \in cols |-> IF c \in DOMAIN row THEN row[c] ELSE NaN]
        F[k \in 0..Len(dfs)] ==
            IF k = 0 THEN <<>>
            ELSE F[k - 1] \o [r \in 1..Len(dfs[k].rows) |-> fill(dfs[k].rows[r])]
    IN  [cols |-> cols, rows |-> F[Len(dfs)]]

\* where a parser goes after its pattern fields, and after its line scan
AfterScan == IF Len(Tables) = 0 THEN "total" ELSE "tables"
AfterFields == IF Len(Lines) = 0 THEN AfterScan ELSE "scan"

\* the locals of one call of extract_invoice_to_dataframe, before it runs
FreshCall ==
    /\ data = EmptyDict
    /\ li = 1
    /\ scanned = {}
    /\ tbl = 1
    /\ items = <<>>
    /\ kept = <<>>
    /\ df = NoFrame
    /\ exc = "none"

\* process_folder, line 244: the loop takes the next file
StartFile ==
    /\ pc = "loop"
    /\ fidx <= Len(files)
    /\ pc' = "detect"
    /\ inv_type' = "none"
    /\ data' = EmptyDict
    /\ li' = 1
    /\ scanned' = {}
    /\ tbl' = 1
    /\ items' = <<>>
    /\ kept' = <<>>
    /\ df' = NoFrame
    /\ exc' = "none"
    /\ UNCHANGED <<files, fidx, all_dfs, errors>>

\* extract_invoice_to_dataframe, line 216
Detect ==
    /\ pc = "detect"
    /\ \E text \in {Text} : inv_type' = detect_invoice_type(text)
    /\ pc' = "parse"
    /\ UNCHANGED <<files, fidx, data, li, scanned, tbl, items, kept, df, exc,
                   all_dfs, errors>>

\* A mutant of RaiseUnknown: the flipkart branch falls through to the raise.
RaiseUnlessAmazon ==
    /\ pc = "parse"
    /\ inv_type # "amazon"
    /\ exc' = "ValueError"
    /\ pc' = "except"
    /\ UNCHANGED <<files, fidx, inv_type, data, li, scanned, tbl, items, kept, df,
                   all_dfs, errors>>

\* extract_invoice_to_dataframe, line 222
RaiseUnknown ==
    /\ pc = "parse"
    /\ inv_type = "unknown"
    /\ exc' = "ValueError"
    /\ pc' = "except"
    /\ UNCHANGED <<files, fidx, inv_type, data, li, scanned, tbl, items, kept, df,
                   all_dfs, errors>>

\* parse_amazon_invoice, lines 41-52
AmazonFields ==
    /\ pc = "parse"
    /\ inv_type = "amazon"
    /\ \E text \in {Text} : data' = AmazonPatterns(text)
    /\ pc' = AfterFields
    /\ UNCHANGED <<files, fidx, inv_type, li, scanned, tbl, items, kept, df, exc,
                   all_dfs, errors>>

\* parse_flipkart_invoice, lines 133-143
FlipkartFields ==
    /\ pc = "parse"
    /\ inv_type = "flipkart"
    /\ \E text \in {Text} : data' = FlipkartPatterns(text)
    /\ pc' = AfterFields
    /\ UNCHANGED <<files, fidx, inv_type, li, scanned, tbl, items, kept, df, exc,
                   all_dfs, errors>>

\* the effect of one iteration of the loop over the lines
ScanEffect(r) == data' = r.data /\ scanned' = r.scans

\* parse_amazon_invoice, lines 55-92: one iteration of the loop over the lines
AmazonScanLine ==
    /\ pc = "scan"
    /\ inv_type = "amazon"
    /\ \E r \in {AmazonLine(data, Lines, li)} : ScanEffect(r)
    /\ li' = li + 1
    /\ pc' = IF li = Len(Lines) THEN AfterScan ELSE "scan"
    /\ UNCHANGED <<files, fidx, inv_type, tbl, items, kept, df, exc, all_dfs, errors>>

\* parse_flipkart_invoice, lines 145-166: one iteration of the loop over the lines
FlipkartScanLine ==
    /\ pc = "scan"
    /\ inv_type = "flipkart"
    /\ \E r \in {FlipkartLine(data, Lines, li)} : ScanEffect(r)
    /\ li' = li + 1
    /\ pc' = IF li = Len(Lines) THEN AfterScan ELSE "scan"
    /\ UNCHANGED <<files, fidx, inv_type, tbl, items, kept, df, exc, all_dfs, errors>>

\* the effect of one iteration of `for table in tables`
TableEffect(table, idx_map, r) ==
    IF r.raised
    THEN /\ exc' = "IndexError"
         /\ pc' = "except"
         /\ UNCHANGED <<tbl, items, kept>>
    ELSE /\ items' = items \o [k \in 1..Len(r.rows) |-> ItemOf(idx_map, table[r.rows[k]])]
         /\ kept' = kept \o [k \in 1..Len(r.rows) |-> <<tbl, r.rows[k]>>]
         /\ tbl' = tbl + 1
         /\ pc' = IF tbl = Len(Tables) THEN "total" ELSE "tables"
         /\ exc' = exc

\* idx_map of a table (empty when the table has no header row)
IdxMapOfTable(vendor, table) ==
    IF Len(table) > 0 THEN IdxMap(vendor, Header(table)) ELSE EmptyDict

TableStepOn(vendor, table, idx_map) ==
    \E r \in {TableItems(vendor, table, idx_map)} : TableEffect(table, idx_map, r)

\* one iteration of `for table in tables` of the parser of a vendor
TableStep(vendor) ==
    \E idx_map \in {IdxMapOfTable(vendor, Tables[tbl])} :
        TableStepOn(vendor, Tables[tbl], idx_map)

\* parse_amazon_invoice, lines 95-122
AmazonTable ==
    /\ pc = "tables"
    /\ inv_type = "amazon"
    /\ TableStep("amazon")
    /\ UNCHANGED <<files, fidx, inv_type, data, li, scanned, df, all_dfs, errors>>

\* parse_flipkart_invoice, lines 168-194
FlipkartTable ==
    /\ pc = "tables"
    /\ inv_type = "flipkart"
    /\ TableStep("flipkart")
    /\ UNCHANGED <<files, fidx, inv_type, data, li, scanned, df, all_dfs, errors>>

\* data after the total of a parser has been searched
WithTotal(d, total) ==
    IF total # <<>> THEN SetField(d, "total_amount", normalize_whitespace(total)) ELSE d

\* parse_amazon_invoice, lines 123-128
AmazonTotal ==
    /\ pc = "total"
    /\ inv_type = "amazon"
    /\ \E text \in {Text} : data' = WithTotal(data, SearchTotalAmazon(text))
    /\ pc' = "frame"
    /\ UNCHANGED <<files, fidx, inv_type, li, scanned, tbl, items, kept, df, exc,
                   all_dfs, errors>>

\* parse_flipkart_invoice, lines 195-200
FlipkartTotal ==
    /\ pc = "total"
    /\ inv_type = "flipkart"
    /\ \E text \in {Text} : data' = WithTotal(data, SearchTotalFlipkart(text))
    /\ pc' = "frame"
    /\ UNCHANGED <<files, fidx, inv_type, li, scanned, tbl, items, kept, df, exc,
                   all_dfs, errors>>

\* extract_invoice_to_dataframe, lines 223-230
Frame ==
    /\ pc = "frame"
    /\ df' = BuildFrame(items, data)
    /\ pc' = "coerce"
    /\ UNCHANGED <<files, fidx, inv_type, data, li, scanned, tbl, items, kept, exc,
                   all_dfs, errors>>

\* extract_invoice_to_dataframe, lines 231-235
CoerceNumeric ==
    /\ pc = "coerce"
    /\ df' = Coerce(df)
    /\ pc' = "return"
    /\ UNCHANGED <<files, fidx, inv_type, data, li, scanned, tbl, items, kept, exc,
                   all_dfs, errors>>

\* process_folder, lines 248-249
AppendFrame ==
    /\ pc = "return"
    /\ all_dfs' = Append(all_dfs, WithSource(df, FileName(fidx)))
    /\ fidx' = fidx + 1
    /\ pc' = "loop"
    /\ UNCHANGED <<files, inv_type, data, li, scanned, tbl, items, kept, df, exc, errors>>

\* A mutant of Except: the handler reports the file and ends the loop.
ExceptAborts ==
    /\ pc = "except"
    /\ errors' = Append(errors, FileName(fidx))
    /\ exc' = "none"
    /\ pc' = "done"
    /\ UNCHANGED <<files, fidx, inv_type, data, li, scanned, tbl, items, kept, df,
                   all_dfs>>

\* process_folder, lines 250-251
Except ==
    /\ pc = "except"
    /\ errors' = Append(errors, FileName(fidx))
    /\ exc' = "none"
    /\ fidx' = fidx + 1
    /\ pc' = "loop"
    /\ UNCHANGED <<files, inv_type, data, li, scanned, tbl, items, kept, df, all_dfs>>

\* process_folder, lines 252-255: the loop is over
Finish ==
    /\ pc = "loop"
    /\ fidx > Len(files)
    /\ pc' = "done"
    /\ UNCHANGED <<files, fidx, inv_type, data, li, scanned, tbl, items, kept, df, exc,
                   all_dfs, errors>>

\* combined_df, line 255 (the function returns before it when all_dfs is empty)
combined_df == Concat(all_dfs)

----------------------------------------------------------------------------
(* The inputs                                                              *)

MaxLines == 9       \* lines of a text of the scan inputs
MaxCols == 3        \* columns of a table of the table inputs
MaxDocLines == 2    \* lines of a text of the document inputs
MaxFiles == 3       \* files of the input folder

Doc(lines, tables) == [lines |-> lines, tables |-> tables]

\* a line without any trigger, different at every position of a text
Plain(k) == <<" ", "line", "\t", ToString(k)>>

Blank == <<>>
Spaces == <<" ", "\t">>
SoldByLine == <<"Sold", " ", "By", " ", ":">>
SoldByLower == <<"sold", " ", "by">>
BillingLine == <<"Billing", " ", "Address", ":">>
ShippingLine == <<"Shipping", " ", "Address", ":">>
ShippingUpper == <<"SHIPPING", " ", "ADDRESS">>
CombinedLine ==
    <<"Sold", " ", "By", " ", ":", " ", "Acme", " ", " ",
      "Billing", " ", "Address", ":", "\t", "Flat", " ", "1">>
CombinedNoBilling == <<"Sold", " ", "By", ":", "Acme", " ", "Billing", " ", "Address">>
TwoAddresses ==
    <<"Billing", " ", "Address", " ", ":", " ", "Shipping", " ", "Address", " ", ":">>
OrderNumberLine == <<"Order", " ", "Number", ":", " ", "1", "7", "1", "-", "1">>
OrderIDLine == <<"Order", " ", "ID", ":", " ", "OD", "1">>
InvoiceDateLine ==
    <<"Invoice", " ", "Date", " ", ":", " ", "0", "5", "-", "0", "6", "-", "2", "0", "2", "3">>

\* the lines the scan inputs place among the plain ones
ScanLines ==
    {Blank, Spaces, SoldByLine, SoldByLower, BillingLine, ShippingLine, ShippingUpper,
     CombinedLine, CombinedNoBilling, TwoAddresses, OrderNumberLine, OrderIDLine,
     InvoiceDateLine}

\* the text of n lines with line a at p and line b at q, plain elsewhere
TextWith(n, p, a, q, b) ==
    [k \in 1..n |-> IF k = p THEN a ELSE IF k = q THEN b ELSE Plain(k)]

\* the texts of MaxLines lines with at most two lines of ScanLines, and the
\* empty text
ScanTexts ==
    {<<>>} \cup {TextWith(MaxLines, 0, Blank, 0, Blank)}
    \cup {TextWith(MaxLines, p, a, 0, Blank) : p \in 1..MaxLines, a \in ScanLines}
    \cup {TextWith(MaxLines, pq[1], a, pq[2], b) :
            pq \in {x \in (1..MaxLines) \X (1..MaxLines) : x[1] < x[2]},
            a \in ScanLines, b \in ScanLines}

\* the state before a call of extract_invoice_to_dataframe on the only file
CallOn(docs) ==
    /\ files \in {<<d>> : d \in docs}
    /\ fidx = 1
    /\ FreshCall
    /\ all_dfs = <<>>
    /\ errors = <<>>

\* parse_amazon_invoice or parse_flipkart_invoice is called on a scan text
InitScan ==
    /\ CallOn({Doc(t, <<>>) : t \in ScanTexts})
    /\ pc = "parse"
    /\ inv_type \in {"amazon", "flipkart"}

NextScan ==
    \/ AmazonFields
    \/ FlipkartFields
    \/ AmazonScanLine
    \/ FlipkartScanLine

SpecScan == InitScan /\ [][NextScan]_vars

----------------------------------------------------------------------------
(* The table inputs                                                        *)

HeaderCells ==
    {<<"Description">>, <<"Item">>, <<"QTY">>, <<"Description", " ", "Qty">>,
     <<"Unit", " ", "Price">>, <<"Net", " ", "Amount">>, <<"Sl", " ", "No">>, NoneCell}

\* a cell with a value, different in every column
Value(k) == <<" ", "v", "\t", " ", ToString(k)>>

\* the row of n cells with a value in every cell
FullRow(n) == [k \in 1..n |-> Value(k)]

\* the rows of n cells: every cell with a value, every cell None, every cell
\* empty, every cell whitespace, only the first cell with a value
RowsOf(n) ==
    {[k \in 1..n |-> Value(k)],
     [k \in 1..n |-> NoneCell],
     [k \in 1..n |-> <<>>],
     [k \in 1..n |-> <<" ">>],
     [k \in 1..n |-> IF k = 1 THEN Value(k) ELSE <<>>]}

\* the rectangular tables of 1 to cols columns: a header, a row of RowsOf
\* and a row with a value in every cell; the table without rows and the table
\* with an empty header
ItemTables(cols) ==
    {<<>>, <<<<>>>>}
    \cup UNION {{<<h, r, FullRow(n)>> : h \in [1..n -> HeaderCells], r \in RowsOf(n)} :
                  n \in 1..cols}

\* parse_amazon_invoice or parse_flipkart_invoice is called on one table
InitItems ==
    /\ CallOn({Doc(<<>>, <<t>>) : t \in ItemTables(MaxCols)})
    /\ pc = "parse"
    /\ inv_type \in {"amazon", "flipkart"}

NextItems ==
    \/ AmazonFields
    \/ FlipkartFields
    \/ AmazonTable
    \/ FlipkartTable

SpecItems == InitItems /\ [][NextItems]_vars

----------------------------------------------------------------------------
(* The address scans: C3, C4, C9 (under SpecScan)                          *)

AddressFields == {"billing_address", "shipping_address", "seller_details"}

\* the line is the combined "Sold By ... Billing Address" line of lines 56-70
IsCombinedLine(line) == Contains(line, SoldBy) /\ Contains(line, BillingAddress)

\* C3: during the line scan of either parser an address field that is set is
\* not changed by a later line (first wins), except that the Amazon combined
\* line may replace seller_details and billing_address.
C3_FirstWins ==
    [][pc = "scan" =>
        \A f \in AddressFields \cap DOMAIN data :
            \/ data'[f] = data[f]
            \/ /\ inv_type = "amazon"
               /\ IsCombinedLine(Lines[li])
               /\ f \in {"seller_details", "billing_address"}]_vars

\* the terminator of the block of a window scan, as the substring is written
IsTerminator(vendor, scan, line) ==
    CASE scan.field = "billing_address" -> Contains(line, ShippingAddress)
      [] scan.field = "shipping_address" ->
            \/ Contains(line, InvoiceDate)
            \/ vendor = "amazon" /\ Contains(line, OrderNumber)
            \/ vendor = "flipkart" /\ Contains(line, OrderID)
      [] scan.field = "seller_details" ->
            vendor = "amazon" /\ Contains(line, BillingAddress)

\* the window of the block of a window scan: 5 lines for the seller details
\* and after the combined line, 8 for the billing and shipping addresses
Reach(scan) ==
    IF scan.field = "seller_details" \/ scan.path = "combined" THEN 5 ELSE 8

\* C4: the block of a window scan triggered at line t holds only lines of
\* t+1 .. t+W, none at or after the first blank line after t, and neither the
\* terminator line of its field nor a line after it.
C4_BlockWithinWindow ==
    \A scan \in scanned :
        \A j \in scan.idx :
            /\ j \in (scan.trigger + 1)..(scan.trigger + Reach(scan))
            /\ \A m \in (scan.trigger + 1)..j :
                  /\ Strip(Lines[m]) # <<>>
                  /\ ~IsTerminator(inv_type, scan, Lines[m])

\* C4 witness: the shipping scan has filled its window, and the line after the
\* block is neither blank nor a terminator.
C4_Witness ==
    \E scan \in scanned :
        LET last == scan.trigger + Cardinality(scan.idx)
        IN  /\ scan.field = "shipping_address"
            /\ Cardinality(scan.idx) = AddressRange - 1
            /\ last < Len(Lines)
            /\ Strip(Lines[last + 1]) # <<>>
            /\ ~IsTerminator(inv_type, scan, Lines[last + 1])

\* C9: in parse_amazon_invoice the independent "Billing Address" scan runs at a
\* line only while seller_details is absent; once seller_details is set, only
\* a combined line writes billing_address.
C9_BillingOnlyWithoutSeller ==
    [][(pc = "scan" /\ inv_type = "amazon") =>
        /\ (\E scan \in scanned' : scan.path = "billing")
              => "seller_details" \notin DOMAIN data'
        /\ "seller_details" \in DOMAIN data =>
              /\ ~\E scan \in scanned' : scan.path = "billing"
              /\ \/ /\ "billing_address" \in DOMAIN data <=> "billing_address" \in DOMAIN data'
                    /\ "billing_address" \in DOMAIN data => data'["billing_address"] = data["billing_address"]
                 \/ \E scan \in scanned' : scan.path = "combined"]_vars

\* C9 witness: seller_details is set, the line just scanned holds "Billing
\* Address" with lines after it, and the billing scan did not run.
C9_Witness ==
    /\ inv_type = "amazon"
    /\ li > 1
    /\ li <= Len(Lines)
    /\ "seller_details" \in DOMAIN data
    /\ "billing_address" \notin DOMAIN data
    /\ SearchIC(Lines[li - 1], BillingAddress)
    /\ ~IsCombinedLine(Lines[li - 1])
    /\ Strip(Lines[li]) # <<>>
    /\ ~\E scan \in scanned : scan.path = "billing"

----------------------------------------------------------------------------
(* The detector: C1 (under SpecDetect)                                     *)

\* the lines of the detector inputs: the three Amazon signals and the Flipkart
\* signal in several cases, near misses of them, and lines without a signal
DetectLines ==
    {<<"Amazon", ".", "in">>, <<"www", ".", "AMAZON", ".", "IN">>, <<"Amazon", " ", "in">>,
     SoldByLine, SoldByLower, <<"Sold">>, <<"By", " ", "Acme">>,
     InvoiceDateLine, <<"INVOICE", " ", "DATE">>, <<"Invoice", "\t", "Date">>,
     <<"Flipkart">>, <<"Tax", " ", "Invoice", " ", "FLIPKART">>, <<"flipkart", ".", "com">>,
     OrderIDLine, <<>>}

\* the sequences of at most n elements of S
SeqsUpTo(S, n) == UNION {[1..m -> S] : m \in 0..n}

DetectTexts == SeqsUpTo(DetectLines, MaxDocLines)

\* extract_invoice_to_dataframe is about to detect the type of a text
InitDetect ==
    /\ CallOn({Doc(t, <<>>) : t \in DetectTexts})
    /\ pc = "detect"
    /\ inv_type = "none"

NextDetect == Detect

SpecDetect == InitDetect /\ [][NextDetect]_vars

\* a word in any case, as written in the text
Word(t, lower) == LowerTok(t) = lower

\* the text holds "Amazon.in", "Sold By" or "Invoice Date", in any case
AmazonSignal(text) ==
    \E k \in 1..(Len(text) - 2) :
        \/ Word(text[k], "amazon") /\ text[k + 1] = "." /\ Word(text[k + 2], "in")
        \/ Word(text[k], "sold") /\ text[k + 1] = " " /\ Word(text[k + 2], "by")
        \/ Word(text[k], "invoice") /\ text[k + 1] = " " /\ Word(text[k + 2], "date")

\* the text holds "Flipkart", in any case
FlipkartSignal(text) == \E k \in 1..Len(text) : Word(text[k], "flipkart")

\* C1: the detector answers amazon when the text holds one of the Amazon
\* signals, whether or not it holds "Flipkart"; otherwise flipkart when it
\* holds "Flipkart"; otherwise unknown.
C1_DetectOrder ==
    pc = "parse" =>
        inv_type = IF AmazonSignal(Text) THEN "amazon"
                   ELSE IF FlipkartSignal(Text) THEN "flipkart"
                   ELSE "unknown"

\* C1 witness: a text with an Amazon signal and "Flipkart" has been detected.
C1_Witness ==
    /\ pc = "parse"
    /\ AmazonSignal(Text)
    /\ FlipkartSignal(Text)
    /\ inv_type = "amazon"

----------------------------------------------------------------------------
(* The line items: C6, C10 (under SpecItems)                               *)

\* C6: every item comes from a row with a non-empty value (after whitespace
\* normalization) in a column that has a role, so no item has only empty
\* fields.
C6_NoEmptyItem ==
    \A n \in 1..Len(items) : \E r \in DOMAIN items[n] : items[n][r] # <<>>

\* the words of a header cell, in lower case (none for None)
CellWords(cell) == IF cell = NoneCell THEN {} ELSE {LowerTok(cell[k]) : k \in 1..Len(cell)}

MatchesDescription(vendor, cell) ==
    "description" \in CellWords(cell) \/ (vendor = "flipkart" /\ "item" \in CellWords(cell))

MatchesQty(cell) == "qty" \in CellWords(cell)

\* the role the first matching test gives a header cell, the tests in the
\* order description, quantity, unit_price, total_price
FirstMatch(vendor, cell) ==
    IF MatchesDescription(vendor, cell) THEN "description"
    ELSE IF MatchesQty(cell) THEN "quantity"
    ELSE IF {"unit", "price"} \subseteq CellWords(cell) THEN "unit_price"
    ELSE IF "amount" \in CellWords(cell) THEN "total_price"
    ELSE "none"

\* item n has a field for exactly the roles some header cell of its table has,
\* and the value of a field is the normalized cell of the rightmost such column
ReadsRightmost(n) ==
    LET head == Tables[kept[n][1]][1]
        row == Tables[kept[n][1]][kept[n][2]]
    IN  \A role \in Roles :
            LET cols == {k \in 1..Len(head) : FirstMatch(inv_type, head[k]) = role}
            IN  IF cols = {} THEN role \notin DOMAIN items[n]
                ELSE /\ role \in DOMAIN items[n]
                     /\ items[n][role] =
                            normalize_whitespace(IF row[Max(cols)] = NoneCell THEN <<>>
                                                 ELSE row[Max(cols)])

\* the items of one table have the same field names
SameFields == \A n, m \in 1..Len(items) : kept[n][1] = kept[m][1] => DOMAIN items[n] = DOMAIN items[m]

\* C10 as stated: every header cell has the role of its first matching test, a
\* role is read from the rightmost cell that has it, and the items of a table
\* share their field names, description and quantity always among them.
C10_AlwaysDescriptionAndQuantity ==
    pc = "total" =>
        /\ SameFields
        /\ \A n \in 1..Len(items) :
              /\ ReadsRightmost(n)
              /\ {"description", "quantity"} \subseteq DOMAIN items[n]

\* C10 amended: as stated, but the shared field names always hold description,
\* and hold quantity exactly when some header cell holds "qty" without
\* matching the description test.
C10_RightmostColumn ==
    pc = "total" =>
        /\ SameFields
        /\ \A n \in 1..Len(items) :
              /\ ReadsRightmost(n)
              /\ "description" \in DOMAIN items[n]
              /\ "quantity" \in DOMAIN items[n] <=>
                    \E k \in 1..Len(Tables[kept[n][1]][1]) :
                        /\ MatchesQty(Tables[kept[n][1]][1][k])
                        /\ ~MatchesDescription(inv_type, Tables[kept[n][1]][1][k])

\* C10 witness: two items of a table whose header has two description cells,
\* with a value in each of them.
C10_Witness ==
    /\ pc = "total"
    /\ Len(items) = 2
    /\ \E j, k \in 1..Len(Tables[1][1]) :
          /\ j < k
          /\ FirstMatch(inv_type, Tables[1][1][j]) = "description"
          /\ FirstMatch(inv_type, Tables[1][1][k]) = "description"
          /\ Truthy(Tables[1][2][j])
          /\ Truthy(Tables[1][2][k])
          /\ items[1]["description"] = normalize_whitespace(Tables[1][2][k])

----------------------------------------------------------------------------
(* The document inputs                                                     *)

AmazonMark == <<"Amazon", ".", "in">>
FlipkartMark == <<"Tax", " ", "Invoice", " ", "Flipkart">>
TotalAmountLine ==
    <<"Total", " ", "Amount", ":", " ", "₹", " ", "1", ",", "2", "0", "0", ".", "5", "0">>
TotalLine == <<"TOTAL", ":", " ", "Rs", ".", "5", "0", "0">>
AddressLine == <<"Flat", " ", " ", "1">>

DocLines ==
    {AmazonMark, FlipkartMark, OrderIDLine, InvoiceDateLine, TotalAmountLine, TotalLine,
     ShippingLine}

DocTexts == SeqsUpTo(DocLines, MaxDocLines)

\* scenario A of the documentation: one row of parseable numbers
WidgetTable ==
    << <<<<"Description">>, <<"Qty">>, <<"Unit", " ", "Price">>, <<"Net", " ", "Amount">>>>,
       <<<<"Widget">>, <<"2">>, <<"1", "0", "0", ".", "0", "0">>, <<"2", "0", "0", ".", "0", "0">>>> >>

\* a quantity that is no number beside one that is
MixedTable ==
    << <<<<"Description">>, <<"Qty">>>>,
       <<<<"Gadget">>, <<"two">>>>,
       <<<<"Widget">>, <<"3">>>> >>

\* currency signs and separators, a row of None and a row without a value in
\* a column that has a role
PricedTable ==
    << <<<<"Item", " ", "Description">>, <<"QTY">>, <<"Amount">>, <<"Sl", " ", "No">>>>,
       <<<<"Widget">>, <<" ", "1", " ">>, <<"₹", "1", ",", "2", "0", "0", ".", "5", "0">>, <<"1">>>>,
       <<NoneCell, NoneCell, NoneCell, NoneCell>>,
       <<<<>>, <<>>, <<"₹", " ", "5", " ", "approx">>, <<"3">>>> >>

\* a table that is no item table
OtherTable == << <<<<"Sl", " ", "No">>, <<"Qty">>>>, <<<<"1">>, <<"2">>>> >>

\* a table whose row is shorter than its header
RaggedTable == << <<<<"Description">>, <<"Qty">>>>, <<<<"Widget">>>> >>

DocTables == {WidgetTable, MixedTable, PricedTable, OtherTable, <<>>}

\* no table, one table of DocTables, or two tables
DocTableSeqs ==
    {<<>>} \cup {<<a>> : a \in DocTables}
    \cup {<<WidgetTable, MixedTable>>, <<MixedTable, PricedTable>>,
          <<PricedTable, WidgetTable>>, <<OtherTable, WidgetTable>>}

\* extract_invoice_to_dataframe is called on a document of rectangular tables
InitDoc ==
    /\ CallOn({Doc(t, ts) : t \in DocTexts, ts \in DocTableSeqs})
    /\ pc = "detect"
    /\ inv_type = "none"

NextDoc ==
    \/ Detect
    \/ RaiseUnknown
    \/ AmazonFields
    \/ FlipkartFields
    \/ AmazonScanLine
    \/ FlipkartScanLine
    \/ AmazonTable
    \/ FlipkartTable
    \/ AmazonTotal
    \/ FlipkartTotal
    \/ Frame
    \/ CoerceNumeric

SpecDoc == InitDoc /\ [][NextDoc]_vars

----------------------------------------------------------------------------
(* The folder inputs                                                       *)

FolderDocs ==
    {Doc(<<AmazonMark, OrderNumberLine, TotalAmountLine>>, <<MixedTable>>),
     Doc(<<FlipkartMark, ShippingLine, AddressLine>>, <<PricedTable>>),
     Doc(<<OrderIDLine>>, <<WidgetTable>>),
     Doc(<<InvoiceDateLine>>, <<OtherTable, RaggedTable>>)}

\* process_folder is called on a folder of at most MaxFiles files
Init ==
    /\ files \in SeqsUpTo(FolderDocs, MaxFiles)
    /\ fidx = 1
    /\ pc = "loop"
    /\ inv_type = "none"
    /\ FreshCall
    /\ all_dfs = <<>>
    /\ errors = <<>>

Next ==
    \/ StartFile
    \/ NextDoc
    \/ AppendFrame
    \/ Except
    \/ Finish

\* process_folder runs to its end: nothing in it waits
Spec == Init /\ [][Next]_vars /\ WF_vars(Next)

----------------------------------------------------------------------------
(* The assembly: C2, C5, C7 (under SpecDoc)                                *)

\* C2: a call of extract_invoice_to_dataframe on a document of rectangular
\* tables fails exactly when the detector answers unknown, and then with the
\* ValueError of line 222; for amazon and flipkart documents every step up to
\* the return can be taken.
C2_OnlyUnknownFails ==
    /\ exc # "none" <=> pc = "except"
    /\ pc = "except" => exc = "ValueError" /\ inv_type = "unknown"
    /\ inv_type = "unknown" => pc \in {"parse", "except"}
    /\ pc \notin {"return", "except"} => ENABLED NextDoc

\* C2 witness: a flipkart document with a value that is no number in a numeric
\* column has been assembled.
C2_Witness ==
    /\ pc = "return"
    /\ inv_type = "flipkart"
    /\ \E k \in 1..Len(df.rows) : \E c \in NumericColumns \cap df.cols :
          df.rows[k][c].t = "str"

\* C5: the frame has max(1, n) rows for n items.  With items, row k is item k
\* and every row has the same value in every header field; without items, the
\* columns of the only row are the header fields, no item field among them.
C5_RowsAndHeader ==
    pc \in {"coerce", "return"} =>
        /\ Len(df.rows) = IF Len(items) > 1 THEN Len(items) ELSE 1
        /\ \A k \in 1..Len(df.rows) : \A f \in DOMAIN data :
              /\ f \in df.cols
              /\ df.rows[k][f] = df.rows[1][f]
              /\ f \notin NumericColumns => df.rows[k][f] = StrVal(data[f])
        /\ \A k \in 1..Len(items) : \A c \in DOMAIN items[k] :
              /\ c \in df.cols
              /\ c \notin NumericColumns => df.rows[k][c] = StrVal(items[k][c])
        /\ items = <<>> => df.cols = DOMAIN data /\ df.cols \cap Roles = {}

\* C5 witness: a frame of three items and header fields has been assembled.
C5_Witness ==
    /\ pc = "return"
    /\ Len(items) = 3
    /\ {"invoice_date", "total_amount"} \subseteq DOMAIN data

\* what C7 says of one cell: the number when the string without its currency
\* signs and separators is one, otherwise the string as it was (NaN is taken
\* for the empty string)
CoercedAlone(orig, cell) ==
    IF ParseNumeric(StripCurrency(orig)).ok /\ ParseNumeric(StripCurrency(orig)).v.t = "num"
    THEN cell = ParseNumeric(StripCurrency(orig)).v
    ELSE cell = StrVal(orig) \/ (orig = <<>> /\ cell = NaN)

\* C7: after the coercion every cell of quantity, unit_price, total_price and
\* total_amount is the number its string stands for, or the string unchanged
\* when it stands for none, whatever the other rows of the column hold.
C7_CellwiseCoercion ==
    pc = "return" =>
        \A k \in 1..Len(df.rows) :
            /\ "total_amount" \in DOMAIN data =>
                  CoercedAlone(data["total_amount"], df.rows[k]["total_amount"])
            /\ k <= Len(items) =>
                  \A c \in DOMAIN items[k] \cap NumericColumns :
                      CoercedAlone(items[k][c], df.rows[k][c])

----------------------------------------------------------------------------
(* The folder loop: C8 (under Spec)                                        *)

\* the call of extract_invoice_to_dataframe on the document raises
DocFails(doc) ==
    \/ detect_invoice_type(JoinLines(doc.lines)) = "unknown"
    \/ \E t \in 1..Len(doc.tables) :
          LET vendor == detect_invoice_type(JoinLines(doc.lines))
          IN  TableItems(vendor, doc.tables[t], IdxMapOfTable(vendor, doc.tables[t])).raised

\* the elements of a set of numbers in increasing order
Ordered(S) ==
    LET F[k \in 0..Cardinality(S)] ==
            IF k = 0 THEN <<>>
            ELSE Append(F[k - 1], Min({n \in S : \A j \in 1..(k - 1) : F[k - 1][j] # n}))
    IN  F[Cardinality(S)]

\* the positions of the listing whose document fails, and whose document parses
Failing == Ordered({k \in 1..Len(files) : DocFails(files[k])})
Passing == Ordered({k \in 1..Len(files) : ~DocFails(files[k])})

\* the names of the files of the listing at the positions ks
Names(ks) == [k \in 1..Len(ks) |-> StrVal(<<FileName(ks[k])>>)]

\* the source_file of every row, runs of one value taken once
Sources(rows) ==
    LET F[k \in 0..Len(rows)] ==
            IF k = 0 THEN <<>>
            ELSE IF k > 1 /\ rows[k]["source_file"] = rows[k - 1]["source_file"]
                 THEN F[k - 1]
                 ELSE Append(F[k - 1], rows[k]["source_file"])
    IN  F[Len(rows)]

\* at the end of the loop every file has been visited; the frames are those
\* of the documents that parse, in listing order; the reports are those of the
\* documents that fail; the combined frame holds the rows of the documents that
\* parse, document after document in listing order, and no other row
BatchResult ==
    /\ fidx = Len(files) + 1
    /\ Len(all_dfs) + Len(errors) = Len(files)
    /\ [k \in 1..Len(all_dfs) |-> Sources(all_dfs[k].rows)]
          = [k \in 1..Len(Passing) |-> <<Names(Passing)[k]>>]
    /\ errors = [k \in 1..Len(Failing) |-> FileName(Failing[k])]
    /\ Sources(combined_df.rows) = Names(Passing)

\* C8: process_folder visits every document of the listing whatever fails
\* before it: the loop ends, and at its end the documents that parse make the
\* combined frame in listing order and the documents that fail are reported
\* and leave no row.
C8_FailureIsolated == [](pc = "done" => BatchResult) /\ <>(pc = "done")

\* C8 witness: the loop has ended on a listing of three documents of which the
\* second failed and the third, after it, is in the combined frame.
C8_Witness ==
    /\ pc = "done"
    /\ Len(files) = 3
    /\ errors = <<FileName(2)>>
    /\ Sources(combined_df.rows) = Names(<<1, 3>>)

====
